---- MODULE Spec2Model ----
(***************************************************************************)
(* A model of two parts of the rapier physics engine:                      *)
(*                                                                         *)
(*  - data/coarena.rs: Coarena<T>, a vector of (generation, value) pairs   *)
(*    addressed by arena indices (slot, generation);                       *)
(*  - dynamics/solver/contact_constraint/two_body_constraint_simd.rs: the  *)
(*    SIMD two-body contact constraint builder and solver.                 *)
(*                                                                         *)
(* Vectors are 0-based in the source and sequences are 1-based here: slot  *)
(* i of the source is position i + 1 of the sequence.                      *)
(***************************************************************************)
EXTENDS Integers, Sequences, FiniteSets, TLC

(***************************************************************************)
(* Bounds of the Coarena model.                                            *)
(***************************************************************************)
\* Slot numbers used by the calls are 0..MaxSlot.
MaxSlot == 1
\* Generations carried by indices are 0..MaxGen and the sentinel u32::MAX.
MaxGen == 1
\* The values of T are 0..MaxVal.
MaxVal == 1

\* u32::MAX, the generation that marks an empty slot. TLC's integers are 32-bit
\* signed, so the largest of them stands for the largest u32: like u32::MAX it
\* is above every other generation and is itself a generation an index can carry.
U32_MAX == 2147483647

Slots == 0..MaxSlot
IdxGens == (0..MaxGen) \cup {U32_MAX}
Vals == 0..MaxVal
\* T::default(), which insert hands to insert_with_default.
DefaultT == 0

VARIABLES
    data,    \* Coarena::data: the sequence of <<generation, value>> pairs
    call,    \* the call whose result the caller holds, with its arguments
             \* (op "idle" between calls)
    ret,     \* what that call returned
    writer,  \* history: per slot, the generation of the index under which
             \* the value now stored there was written by insert or ensure
             \* (NoGen for filler values: growth defaults, removal replacements)
    aba      \* history: <<stage, s, g1>>, the progress of the latest calls
             \* through insert((s,g1), _); remove((s,g1), _); insert((s,g2), _)

cvars == <<data, call, ret, writer, aba>>

VARIABLES
    manifolds,        \* generate's argument manifolds: one contact manifold per lane
    manifolds_all,    \* writeback_impulses' argument manifolds_all: the contact
                      \* points of every manifold, by manifold index
    out_builders,     \* generate's argument out_builders
    out_constraints,  \* generate's argument out_constraints
    solver_vels,      \* solve's argument solver_vels, shared by the constraints
    outcome,          \* how the last call of the builder ended
    driver,           \* where the caller stands in generate; (update; solve)^n
    produced          \* history: per constraint, element and part, the sum of
                      \* the impulses solve has produced since generate

svars == <<manifolds, manifolds_all, out_builders, out_constraints, solver_vels,
           outcome, driver, produced>>

vars == <<cvars, svars>>

NoGen == -1

(***************************************************************************)
(* Return values. items is a sequence of <<slot, generation, value>>: the  *)
(* slot a returned reference points into, the generation of the index and  *)
(* the value read there.                                                   *)
(***************************************************************************)
None == [kind |-> "None", items |-> <<>>]
Some(s, g, v) == [kind |-> "Some", items |-> << <<s, g, v>> >>]
Unit == [kind |-> "Unit", items |-> <<>>]
Panic == [kind |-> "Panic", items |-> <<>>]
Items(xs) == [kind |-> "Items", items |-> xs]

Max(a, b) == IF a >= b THEN a ELSE b

(***************************************************************************)
(* Vec::resize(new_len, value): truncates or appends clones of value.      *)
(***************************************************************************)
resize(d, n, e) ==
    IF n <= Len(d) THEN SubSeq(d, 1, n)
    ELSE d \o [k \in 1..(n - Len(d)) |-> e]

(***************************************************************************)
(* Coarena::iter: enumerate, drop the sentinel generations, rebuild the    *)
(* index from the position and the stored generation.                      *)
(***************************************************************************)
RECURSIVE iter_from(_, _)
iter_from(d, k) ==
    IF k > Len(d) THEN <<>>
    ELSE IF d[k][1] # U32_MAX
         THEN << <<k - 1, d[k][1], d[k][2]>> >> \o iter_from(d, k + 1)
         ELSE iter_from(d, k + 1)

\* Mutant of iter: the filter on the sentinel generation is left out.
iter_unfiltered(d) == Items([k \in 1..Len(d) |-> <<k - 1, d[k][1], d[k][2]>>])

iter(d) == Items(iter_from(d, 1))

(***************************************************************************)
(* Coarena::get_unknown_gen: the value at a slot, whatever its generation. *)
(***************************************************************************)
get_unknown_gen(d, i) ==
    IF i < Len(d) THEN Some(i, d[i + 1][1], d[i + 1][2]) ELSE None

(***************************************************************************)
(* Coarena::remove.                                                        *)
(***************************************************************************)
\* Mutant of remove: the generation is not invalidated.
remove_keeps_generation(d, i, g, removed_value) ==
    IF ~(i < Len(d)) THEN [data |-> d, ret |-> None]
    ELSE IF g = d[i + 1][1]
         THEN [data |-> [d EXCEPT ![i + 1] = <<g, removed_value>>],
               ret |-> Some(i, g, d[i + 1][2])]
         ELSE [data |-> d, ret |-> None]

\* Mutant of remove: the generation is not compared.
remove_any_generation(d, i, g, removed_value) ==
    IF ~(i < Len(d)) THEN [data |-> d, ret |-> None]
    ELSE [data |-> [d EXCEPT ![i + 1] = <<U32_MAX, removed_value>>],
          ret |-> Some(i, g, d[i + 1][2])]

remove(d, i, g, removed_value) ==
    IF ~(i < Len(d)) THEN [data |-> d, ret |-> None]
    ELSE IF g = d[i + 1][1]
         THEN [data |-> [d EXCEPT ![i + 1] = <<U32_MAX, removed_value>>],
               ret |-> Some(i, g, d[i + 1][2])]
         ELSE [data |-> d, ret |-> None]

(***************************************************************************)
(* Coarena::get and Coarena::get_mut.                                      *)
(***************************************************************************)
\* Mutant of get: the generation is not compared.
get_any_generation(d, i, g) ==
    IF i < Len(d) THEN Some(i, g, d[i + 1][2]) ELSE None

get(d, i, g) ==
    IF i < Len(d) /\ g = d[i + 1][1] THEN Some(i, g, d[i + 1][2]) ELSE None

get_mut(d, i, g) ==
    IF i < Len(d) /\ g = d[i + 1][1] THEN Some(i, g, d[i + 1][2]) ELSE None

(***************************************************************************)
(* Coarena::insert_with_default and Coarena::insert.                       *)
(***************************************************************************)
\* Mutant of insert_with_default: the target slot gets the default.
insert_with_default_swapped(d, i1, g1, value, default) ==
    LET d1 == IF Len(d) <= i1 THEN resize(d, i1 + 1, <<U32_MAX, value>>) ELSE d
    IN  [data |-> [d1 EXCEPT ![i1 + 1] = <<g1, default>>], ret |-> Unit]

\* Mutant of insert_with_default: the resize is not guarded by the length.
insert_with_default_unguarded(d, i1, g1, value, default) ==
    LET d1 == resize(d, i1 + 1, <<U32_MAX, default>>)
    IN  [data |-> [d1 EXCEPT ![i1 + 1] = <<g1, value>>], ret |-> Unit]

insert_with_default(d, i1, g1, value, default) ==
    LET d1 == IF Len(d) <= i1 THEN resize(d, i1 + 1, <<U32_MAX, default>>) ELSE d
    IN  [data |-> [d1 EXCEPT ![i1 + 1] = <<g1, value>>], ret |-> Unit]

insert(d, i1, g1, value) == insert_with_default(d, i1, g1, value, DefaultT)

(***************************************************************************)
(* Coarena::ensure_element_exist.                                          *)
(***************************************************************************)
ensure_element_exist(d, i1, g1, default) ==
    LET d1 == IF Len(d) <= i1 THEN resize(d, i1 + 1, <<U32_MAX, default>>) ELSE d
        elt == d1[i1 + 1]
        new == IF elt[1] # g1 THEN <<g1, default>> ELSE elt
    IN  [data |-> [d1 EXCEPT ![i1 + 1] = new],
         ret |-> Items(<< <<i1, g1, new[2]>> >>)]

(***************************************************************************)
(* Coarena::ensure_pair_exists: the assertion (ensure_pair_exists), then   *)
(* the growth to the larger slot, the split at the larger slot and the two *)
(* resets (split_pair).                                                    *)
(***************************************************************************)
\* Mutant of split_pair: in the branch i1 > i2 the two halves are taken in the
\* order of the other branch, so each index is given the other's slot.
split_pair_crossed(d, i1, g1, i2, g2, default) ==
    IF i1 > i2
    THEN LET d1 == IF Len(d) <= i1
                   THEN resize(d, i1 + 1, <<U32_MAX, default>>) ELSE d
             left == SubSeq(d1, 1, i1)
             right == SubSeq(d1, i1 + 1, Len(d1))
             elt1 == left[i2 + 1]
             elt2 == right[1]
             new1 == IF elt1[1] # g1 THEN <<g1, default>> ELSE elt1
             new2 == IF elt2[1] # g2 THEN <<g2, default>> ELSE elt2
         IN  [data |-> [left EXCEPT ![i2 + 1] = new1] \o [right EXCEPT ![1] = new2],
              ret |-> Items(<< <<i2, g1, new1[2]>>, <<i1, g2, new2[2]>> >>)]
    ELSE LET d1 == IF Len(d) <= i2
                   THEN resize(d, i2 + 1, <<U32_MAX, default>>) ELSE d
             left == SubSeq(d1, 1, i2)
             right == SubSeq(d1, i2 + 1, Len(d1))
             elt1 == left[i1 + 1]
             elt2 == right[1]
             new1 == IF elt1[1] # g1 THEN <<g1, default>> ELSE elt1
             new2 == IF elt2[1] # g2 THEN <<g2, default>> ELSE elt2
         IN  [data |-> [left EXCEPT ![i1 + 1] = new1] \o [right EXCEPT ![1] = new2],
              ret |-> Items(<< <<i1, g1, new1[2]>>, <<i2, g2, new2[2]>> >>)]

split_pair(d, i1, g1, i2, g2, default) ==
    IF i1 > i2
    THEN LET d1 == IF Len(d) <= i1
                   THEN resize(d, i1 + 1, <<U32_MAX, default>>) ELSE d
             left == SubSeq(d1, 1, i1)
             right == SubSeq(d1, i1 + 1, Len(d1))
             elt1 == right[1]
             elt2 == left[i2 + 1]
             new1 == IF elt1[1] # g1 THEN <<g1, default>> ELSE elt1
             new2 == IF elt2[1] # g2 THEN <<g2, default>> ELSE elt2
         IN  [data |-> [left EXCEPT ![i2 + 1] = new2] \o [right EXCEPT ![1] = new1],
              ret |-> Items(<< <<i1, g1, new1[2]>>, <<i2, g2, new2[2]>> >>)]
    ELSE LET d1 == IF Len(d) <= i2
                   THEN resize(d, i2 + 1, <<U32_MAX, default>>) ELSE d
             left == SubSeq(d1, 1, i2)
             right == SubSeq(d1, i2 + 1, Len(d1))
             elt1 == left[i1 + 1]
             elt2 == right[1]
             new1 == IF elt1[1] # g1 THEN <<g1, default>> ELSE elt1
             new2 == IF elt2[1] # g2 THEN <<g2, default>> ELSE elt2
         IN  [data |-> [left EXCEPT ![i1 + 1] = new1] \o [right EXCEPT ![1] = new2],
              ret |-> Items(<< <<i1, g1, new1[2]>>, <<i2, g2, new2[2]>> >>)]

\* Mutant of ensure_pair_exists: the store is grown before the slots are
\* compared.
ensure_pair_exists_late_assert(d, i1, g1, i2, g2, default) ==
    IF i1 = i2
    THEN [data |-> IF Len(d) <= i1
                   THEN resize(d, i1 + 1, <<U32_MAX, default>>) ELSE d,
          ret |-> Panic]
    ELSE split_pair(d, i1, g1, i2, g2, default)

ensure_pair_exists(d, i1, g1, i2, g2, default) ==
    IF i1 = i2 THEN [data |-> d, ret |-> Panic]
    ELSE split_pair(d, i1, g1, i2, g2, default)

(***************************************************************************)
(* The history variable writer.                                            *)
(***************************************************************************)
GrowWriter(w, n) ==
    IF Len(w) < n THEN w \o [k \in 1..(n - Len(w)) |-> NoGen] ELSE w

\* After an ensure of (i, g) that took d0 to d1: the slot was written under g
\* exactly when it was reset, that is when it did not already hold g.
EnsureWriter(w, d0, i, g) ==
    LET w1 == GrowWriter(w, i + 1)
    IN  IF i < Len(d0) /\ d0[i + 1][1] = g THEN w1
        ELSE IF ~(i < Len(d0)) /\ g = U32_MAX THEN w1
        ELSE [w1 EXCEPT ![i + 1] = g]

Call(op, i, g, v, d, i2, g2) ==
    [op |-> op, i |-> i, g |-> g, v |-> v, d |-> d, i2 |-> i2, g2 |-> g2]

Idle == Call("idle", 0, 0, 0, 0, 0, 0)

\* A call can be made when the last one has returned and its result (a
\* borrow of the coarena) has been let go of. A panic ends the run.
Ready == call = Idle /\ ret.kind # "Panic"

NoAba == <<0, 0, 0>>

(***************************************************************************)
(* The state after Coarena::new().                                         *)
(***************************************************************************)
CoarenaNew ==
    /\ data = <<>>
    /\ call = Idle
    /\ ret = Unit
    /\ writer = <<>>
    /\ aba = NoAba

\* The constraint solver takes no part in the runs of the coarena.
SolverUnused ==
    /\ manifolds = <<>>
    /\ manifolds_all = <<>>
    /\ out_builders = <<>>
    /\ out_constraints = <<>>
    /\ solver_vels = <<>>
    /\ outcome = "None"
    /\ driver = [phase |-> "unused", substep |-> 0, next |-> 0]
    /\ produced = <<>>

CoarenaInit == CoarenaNew /\ SolverUnused

(***************************************************************************)
(* One action per public method.                                           *)
(***************************************************************************)
DoIter ==
    /\ Ready
    /\ call' = Call("iter", 0, 0, 0, 0, 0, 0)
    /\ ret' = iter(data)
    /\ UNCHANGED <<data, writer>>

DoGetUnknownGen(i) ==
    /\ Ready
    /\ call' = Call("get_unknown_gen", i, 0, 0, 0, 0, 0)
    /\ ret' = get_unknown_gen(data, i)
    /\ UNCHANGED <<data, writer>>

DoGet(i, g) ==
    /\ Ready
    /\ call' = Call("get", i, g, 0, 0, 0, 0)
    /\ ret' = get(data, i, g)
    /\ UNCHANGED <<data, writer>>

DoGetMut(i, g) ==
    /\ Ready
    /\ call' = Call("get_mut", i, g, 0, 0, 0, 0)
    /\ ret' = get_mut(data, i, g)
    /\ UNCHANGED <<data, writer>>

DoRemove(i, g, r) ==
    /\ Ready
    /\ LET out == remove(data, i, g, r)
       IN  /\ data' = out.data
           /\ ret' = out.ret
           /\ writer' = IF out.ret.kind = "Some"
                        THEN [writer EXCEPT ![i + 1] = NoGen] ELSE writer
    /\ call' = Call("remove", i, g, r, 0, 0, 0)

DoInsert(i, g, v) ==
    /\ Ready
    /\ LET out == insert(data, i, g, v)
       IN  /\ data' = out.data
           /\ ret' = out.ret
    /\ writer' = [GrowWriter(writer, i + 1) EXCEPT ![i + 1] = g]
    /\ call' = Call("insert", i, g, v, DefaultT, 0, 0)

DoInsertWithDefault(i, g, v, d) ==
    /\ Ready
    /\ LET out == insert_with_default(data, i, g, v, d)
       IN  /\ data' = out.data
           /\ ret' = out.ret
    /\ writer' = [GrowWriter(writer, i + 1) EXCEPT ![i + 1] = g]
    /\ call' = Call("insert_with_default", i, g, v, d, 0, 0)

DoEnsureElementExist(i, g, d) ==
    /\ Ready
    /\ LET out == ensure_element_exist(data, i, g, d)
       IN  /\ data' = out.data
           /\ ret' = out.ret
    /\ writer' = EnsureWriter(writer, data, i, g)
    /\ call' = Call("ensure_element_exist", i, g, 0, d, 0, 0)

DoEnsurePairExists(i1, g1, i2, g2, d) ==
    /\ Ready
    /\ LET out == ensure_pair_exists(data, i1, g1, i2, g2, d)
       IN  /\ data' = out.data
           /\ ret' = out.ret
           /\ writer' = IF out.ret.kind = "Panic" THEN writer
                        ELSE EnsureWriter(EnsureWriter(writer, data, i1, g1),
                                          data, i2, g2)
    /\ call' = Call("ensure_pair_exists", i1, g1, 0, d, i2, g2)

\* The caller lets go of what the call returned.
Release ==
    /\ call # Idle
    /\ ret.kind # "Panic"
    /\ call' = Idle
    /\ ret' = Unit
    /\ UNCHANGED <<data, writer>>

(***************************************************************************)
(* The history variable aba follows the latest calls through the sequence  *)
(* insert((s,g1), _); remove((s,g1), _); insert((s,g2), _) with g1 # g2:   *)
(* <<1,s,g1>> after the first, <<2,s,g1>> after the second, <<3,s,g1>>     *)
(* after the third. Letting go of a result keeps it; any other call, or a  *)
(* call that does not continue the sequence, starts over.                  *)
(***************************************************************************)
AbaStep(a, c) ==
    IF c = Idle THEN a
    ELSE IF c.op \in {"insert", "insert_with_default"}
    THEN IF a[1] = 2 /\ a[2] = c.i /\ a[3] # c.g THEN <<3, c.i, a[3]>>
         ELSE <<1, c.i, c.g>>
    ELSE IF c.op = "remove" /\ a = <<1, c.i, c.g>> THEN <<2, c.i, c.g>>
    ELSE NoAba

Keep == UNCHANGED <<aba, svars>>
Track == aba' = AbaStep(aba, call') /\ UNCHANGED svars

\* Every call of the coarena, in any order.
CoarenaNext ==
    \/ Release /\ Keep
    \/ DoIter /\ Keep
    \/ \E i \in Slots : DoGetUnknownGen(i) /\ Keep
    \/ \E i \in Slots, g \in IdxGens : DoGet(i, g) /\ Keep
    \/ \E i \in Slots, g \in IdxGens : DoGetMut(i, g) /\ Keep
    \/ \E i \in Slots, g \in IdxGens, r \in Vals : DoRemove(i, g, r) /\ Keep
    \/ \E i \in Slots, g \in IdxGens, v \in Vals : DoInsert(i, g, v) /\ Keep
    \/ \E i \in Slots, g \in IdxGens, v \in Vals, d \in Vals :
          DoInsertWithDefault(i, g, v, d) /\ Keep
    \/ \E i \in Slots, g \in IdxGens, d \in Vals :
          DoEnsureElementExist(i, g, d) /\ Keep
    \/ \E i1 \in Slots, g1 \in IdxGens, i2 \in Slots, g2 \in IdxGens, d \in Vals :
          DoEnsurePairExists(i1, g1, i2, g2, d) /\ Keep

Spec == CoarenaInit /\ [][CoarenaNext]_vars

\* The same calls with the history of the sequence kept; ensure_pair_exists,
\* which acts on the store as two ensure_element_exist calls do, is left out.
AbaNext ==
    \/ Release /\ Track
    \/ DoIter /\ Track
    \/ \E i \in Slots : DoGetUnknownGen(i) /\ Track
    \/ \E i \in Slots, g \in IdxGens : DoGet(i, g) /\ Track
    \/ \E i \in Slots, g \in IdxGens : DoGetMut(i, g) /\ Track
    \/ \E i \in Slots, g \in IdxGens, r \in Vals : DoRemove(i, g, r) /\ Track
    \/ \E i \in Slots, g \in IdxGens, v \in Vals : DoInsert(i, g, v) /\ Track
    \/ \E i \in Slots, g \in IdxGens, v \in Vals, d \in Vals :
          DoInsertWithDefault(i, g, v, d) /\ Track
    \/ \E i \in Slots, g \in IdxGens, d \in Vals :
          DoEnsureElementExist(i, g, d) /\ Track

AbaSpec == CoarenaInit /\ [][AbaNext]_vars

(***************************************************************************)
(* Properties of the Coarena.                                              *)
(***************************************************************************)
Inserts == {"insert", "insert_with_default"}
Ensures == {"ensure_element_exist", "ensure_pair_exists"}
RealGens == IdxGens \ {U32_MAX}

\* The call c is an insert, ensure or remove aimed at slot i.
Targets(c, i) ==
    /\ c.op \in Inserts \cup Ensures \cup {"remove"}
    /\ c.i = i \/ (c.op = "ensure_pair_exists" /\ c.i2 = i)

\* The call c is an insert or ensure aimed at slot i.
Claims(c, i) ==
    /\ c.op \in Inserts \cup Ensures
    /\ c.i = i \/ (c.op = "ensure_pair_exists" /\ c.i2 = i)

\* No index with a generation other than the sentinel resolves at slot i.
EmptyAt(d, i) == \A g \in RealGens : get(d, i, g) = None

\* C1: right after insert(i, v) or insert_with_default(i, v, d), get(i) returns
\* Some(v); and whatever get(i) returns, it keeps returning it across every
\* step that is not an insert, ensure or remove aimed at i's slot (calls on
\* other slots, growth of the store included).
C1_InsertGetRoundTrip ==
    /\ [](call.op \in Inserts =>
            get(data, call.i, call.g) = Some(call.i, call.g, call.v))
    /\ [][\A i \in Slots, g \in IdxGens :
            (get(data, i, g) # None /\ ~Targets(call', i))
                => get(data', i, g) = get(data, i, g)]_cvars

\* An insert at slot 1 returned, with slot 0 still resolving its own index.
C1_Witness ==
    /\ call.op = "insert_with_default" /\ call.i = 1 /\ call.v = 1 /\ call.d = 0
    /\ get(data, 1, call.g) = Some(1, call.g, 1)
    /\ get(data, 0, 1) = Some(0, 1, 1)

\* C2 as stated: after remove(i, replacement), for any index i and any prior
\* state, no index at i's slot resolves, whatever its generation.
C2_RemoveThenNoneAnyGeneration ==
    call.op = "remove" => \A g \in IdxGens : get(data, call.i, g) = None

\* C2 as amended: after remove(i, _) with a generation other than the sentinel
\* get(i) returns None; if the remove returned Some, no index at that slot with
\* a generation other than the sentinel resolves; and a slot at which no such
\* index resolves stays so until an insert or ensure call is aimed at it.
C2_RemoveThenNone ==
    /\ [](call.op = "remove" /\ call.g # U32_MAX =>
            get(data, call.i, call.g) = None)
    /\ [](call.op = "remove" /\ ret.kind = "Some" => EmptyAt(data, call.i))
    /\ [][\A i \in Slots :
            (EmptyAt(data, i) /\ ~Claims(call', i)) => EmptyAt(data', i)]_cvars

\* A remove that found its generation, in a store with a live slot beside it.
C2_Witness ==
    /\ call.op = "remove" /\ ret.kind = "Some" /\ call.g = 1 /\ call.i = 0
    /\ Len(data) = 2 /\ data[2][1] = 0

\* C3: after insert((s,g1), v1); remove((s,g1), r); insert((s,g2), v2) with
\* g1 # g2, get((s,g1)) is None and get((s,g2)) is Some(v2); and a value
\* written under one generation is returned by get and get_mut only to an
\* index that carries that generation.
C3_AbaSafety ==
    /\ (aba[1] = 3 /\ call.op \in Inserts) =>
          /\ get(data, call.i, aba[3]) = None
          /\ get(data, call.i, call.g) = Some(call.i, call.g, call.v)
    /\ \A i \in Slots, g \in IdxGens :
          (i < Len(data) /\ writer[i + 1] # NoGen /\ writer[i + 1] # g) =>
              get(data, i, g) = None /\ get_mut(data, i, g) = None

\* The third call of the sequence returned, neither generation the sentinel.
C3_Witness ==
    /\ aba[1] = 3 /\ call.op = "insert" /\ call.i = 0
    /\ aba[3] = 0 /\ call.g = 1 /\ call.v = 1

\* C4: ensure_pair_exists(a, b, _) with a.slot = b.slot panics, whatever the
\* generations, and the store is as it was before the call.
C4_PairSameSlotPanics ==
    [][(call'.op = "ensure_pair_exists" /\ call'.i = call'.i2) =>
          ret' = Panic /\ data' = data]_cvars

\* The panic on a slot past the end of the store, with two generations.
C4_Witness ==
    /\ ret = Panic /\ call.op = "ensure_pair_exists"
    /\ call.i = 1 /\ call.i2 = 1 /\ call.g # call.g2 /\ Len(data) = 1

\* C5: remove(index, replacement) returns Some(old value), sets the slot to
\* (sentinel, replacement) and changes no other slot when the slot is in the
\* store with the index's generation; otherwise it returns None, does not
\* panic and leaves the whole store as it was.
C5_RemoveContract ==
    [][call'.op = "remove" =>
          LET i == call'.i
              g == call'.g
          IN  IF i < Len(data) /\ data[i + 1][1] = g
              THEN /\ ret' = Some(i, g, data[i + 1][2])
                   /\ Len(data') = Len(data)
                   /\ data'[i + 1] = <<U32_MAX, call'.v>>
                   /\ \A k \in 1..Len(data) : k # i + 1 => data'[k] = data[k]
              ELSE ret' = None /\ data' = data]_cvars

\* A remove that replaced a value by a different one, beside a live slot.
C5_Witness ==
    /\ call.op = "remove" /\ call.i = 1 /\ call.v = 1
    /\ ret = Some(1, 0, 0) /\ data[2] = <<U32_MAX, 1>> /\ data[1][1] = 1

\* The ensure rule for index (i, g) on a step from d0 to d1: the slot keeps
\* its entry when it held generation g and becomes (g, default) otherwise.
EnsuredEntry(d0, d1, i, g, default) ==
    /\ i < Len(d1)
    /\ d1[i + 1] = IF i < Len(d0) /\ d0[i + 1][1] = g
                   THEN d0[i + 1] ELSE <<g, default>>

\* C6: ensure_element_exist and ensure_pair_exists (on two slots) grow the
\* store to cover the requested slots, reset a requested slot to (requested
\* generation, default) only when it held another generation, and return
\* references to the requested slots; ensure_pair_exists(a, b, d) leaves the
\* store, and returns the references, that ensure_element_exist(a, d) followed
\* by ensure_element_exist(b, d) does.
C6_EnsureRule ==
    [][/\ call'.op = "ensure_element_exist" =>
            /\ Len(data') = Max(Len(data), call'.i + 1)
            /\ EnsuredEntry(data, data', call'.i, call'.g, call'.d)
            /\ ret' = Items(<< <<call'.i, call'.g, data'[call'.i + 1][2]>> >>)
            /\ \A k \in 1..Len(data') : k # call'.i + 1 =>
                  data'[k] = IF k <= Len(data) THEN data[k]
                             ELSE <<U32_MAX, call'.d>>
       /\ (call'.op = "ensure_pair_exists" /\ call'.i # call'.i2) =>
            LET one == ensure_element_exist(data, call'.i, call'.g, call'.d)
                two == ensure_element_exist(one.data, call'.i2, call'.g2, call'.d)
            IN  /\ data' = two.data
                /\ ret' = Items(one.ret.items \o two.ret.items)
                /\ Len(data') = Max(Len(data), Max(call'.i, call'.i2) + 1)
                /\ EnsuredEntry(data, data', call'.i, call'.g, call'.d)
                /\ EnsuredEntry(data, data', call'.i2, call'.g2, call'.d)
                /\ ret'.items[1] = <<call'.i, call'.g, data'[call'.i + 1][2]>>
                /\ ret'.items[2] = <<call'.i2, call'.g2, data'[call'.i2 + 1][2]>>
      ]_cvars

\* ensure_pair_exists kept the value of its first index, which is the larger
\* slot, and reset its second.
C6_Witness ==
    /\ call.op = "ensure_pair_exists" /\ call.i = 1 /\ call.i2 = 0
    /\ call.g = 1 /\ call.g2 = 0 /\ call.d = 0
    /\ data = << <<0, 0>>, <<1, 1>> >>
    /\ writer = <<0, 1>>

\* C7: after insert / insert_with_default(index, value, default) the length is
\* max(old length, index.slot + 1), the new slots other than the target hold
\* (sentinel, default) and resolve for no generation but the sentinel, the old
\* entries at other slots are unchanged and the target holds (generation,
\* value); no step makes the store shorter, and get, get_mut, get_unknown_gen,
\* remove and iter keep its length.
C7_InsertGrowth ==
    [][/\ call'.op \in Inserts =>
            /\ Len(data') = Max(Len(data), call'.i + 1)
            /\ data'[call'.i + 1] = <<call'.g, call'.v>>
            /\ \A k \in 1..Len(data') : k # call'.i + 1 =>
                  IF k <= Len(data) THEN data'[k] = data[k]
                  ELSE /\ data'[k] = <<U32_MAX, call'.d>>
                       /\ EmptyAt(data', k - 1)
       /\ call'.op = "insert" => call'.d = DefaultT
       /\ Len(data') >= Len(data)
       /\ call'.op \in {"get", "get_mut", "get_unknown_gen", "remove", "iter"}
            => Len(data') = Len(data)
      ]_cvars

\* An insert past the end created a filler slot with a non-zero default.
C7_Witness ==
    /\ call.op = "insert_with_default" /\ call.i = 1 /\ call.d = 1 /\ call.v = 0
    /\ data = << <<U32_MAX, 1>>, <<0, 0>> >>

\* C8: iter yields, in increasing slot order and once each, the triple (slot,
\* stored generation, value) of every slot whose generation is not the
\* sentinel and nothing else; get resolves every yielded index to the yielded
\* value; iterating leaves the store as it was, so that iterating again
\* yields the same sequence.
C8_IterContract ==
    /\ [](call.op = "iter" =>
            LET xs == ret.items
            IN  /\ ret.kind = "Items"
                /\ \A k \in 1..Len(xs) :
                      /\ xs[k][2] # U32_MAX
                      /\ get(data, xs[k][1], xs[k][2]) = Some(xs[k][1], xs[k][2], xs[k][3])
                      /\ k > 1 => xs[k - 1][1] < xs[k][1]
                /\ \A i \in 0..(Len(data) - 1) :
                      data[i + 1][1] # U32_MAX =>
                          \E k \in 1..Len(xs) : xs[k] = <<i, data[i + 1][1], data[i + 1][2]>>
                /\ iter(data) = ret)
    /\ [][call'.op = "iter" => data' = data]_cvars

\* An iteration over a store with a sentinel slot before a live one.
C8_Witness ==
    /\ call.op = "iter" /\ Len(data) = 2
    /\ data[1][1] = U32_MAX /\ data[2][1] = 1
    /\ ret.items = << <<1, 1, data[2][2]>> >>

(***************************************************************************)
(* dynamics/solver/contact_constraint/two_body_constraint_simd.rs          *)
(*                                                                         *)
(* Modelled of a constraint: the body slots solver_vel1 and solver_vel2,   *)
(* manifold_id, num_contacts, manifold_contact_id and, per element, the    *)
(* impulse and total_impulse of the normal part and of the tangent part    *)
(* (dim2: one tangent direction). Of a builder: per element, the dist that *)
(* ContactPointInfos caches. The geometry (directions, masses, gcross, r,  *)
(* rhs, cfm_factor) is left out. A SIMD value is a function on the lanes,  *)
(* a real an integer. Arrays are functions on 0..n-1, as in the source.    *)
(***************************************************************************)
\* The lanes of a SIMD value. The crate builds with 4; the model runs with 2.
SIMD_WIDTH == 2
\* The elements of a constraint: MAX_MANIFOLD_POINTS of the dim2 build.
MAX_MANIFOLD_POINTS == 2

\* A manifold has 0..MaxContacts active contacts.
MaxContacts == 3
\* The caller runs 1..MaxSubsteps rounds of update; solve after generate.
MaxSubsteps == 2
\* Impulses left in a reused constraint, and the seed of a solve, are 0..MaxImpulse.
MaxImpulse == 1

Lanes == 0..(SIMD_WIDTH - 1)
Points == 0..(MAX_MANIFOLD_POINTS - 1)
Dominances == {-1, 0, 1}
Min(a, b) == IF a <= b THEN a ELSE b

\* The gather! macro: one value per lane.
gather(F(_)) == [ii \in Lanes |-> F(ii)]
\* SimdReal::splat.
splat(x) == [ii \in Lanes |-> x]
simd_add(a, b) == [ii \in Lanes |-> a[ii] + b[ii]]

\* Option::None for ContactManifoldData::rigid_body1 / rigid_body2.
NoBody == -1
NumBodies == 2 * SIMD_WIDTH
Handles == 0..(NumBodies - 1)
\* bodies: &RigidBodySet, read for ids.active_set_offset.
bodies == [h \in Handles |-> [ids |-> [active_set_offset |-> (NumBodies - 1) - h]]]

\* The constraints and builders a manifold of MaxContacts contacts fills.
NumChunks == (MaxContacts + MAX_MANIFOLD_POINTS - 1) \div MAX_MANIFOLD_POINTS
Chunks == 0..(NumChunks - 1)

\* generate's argument manifold_id.
manifold_id_arg == [ii \in Lanes |-> (SIMD_WIDTH - 1) - ii]

\* The p-th solver contact of lane ii's manifold.
SolverContact(ii, p) ==
    [contact_id |-> (p + ii + 1) % (MaxContacts + 1),
     dist |-> ii * (MaxContacts + 1) + p + 1]

Manifold(ii, dominance, n, b1, b2) ==
    [data |-> [relative_dominance |-> dominance,
               rigid_body1 |-> b1,
               rigid_body2 |-> b2,
               solver_contacts |-> [p \in 1..n |-> SolverContact(ii, p - 1)]]]

\* ContactManifoldData::num_active_contacts.
num_active_contacts(m) == Len(m.data.solver_contacts)

\* The bodies of the lanes: a pair of its own for each lane; the second body
\* of a lane being the first of the next; a pair of its own for each lane, the
\* last lane's first body missing.
Layouts == {"disjoint", "chained", "missing"}
Body1(layout, ii) ==
    IF layout = "chained" THEN ii
    ELSE IF layout = "missing" /\ ii = SIMD_WIDTH - 1 THEN NoBody
    ELSE 2 * ii
Body2(layout, ii) == IF layout = "chained" THEN ii + 1 ELSE 2 * ii + 1

\* What a constraint and a builder hold from an earlier use.
UsedPart(g) == [impulse |-> splat(g), total_impulse |-> splat(g)]
UsedConstraint(g) ==
    [solver_vel1 |-> splat(0),
     solver_vel2 |-> splat(0),
     manifold_id |-> splat(0),
     num_contacts |-> MAX_MANIFOLD_POINTS,
     manifold_contact_id |-> [k \in Points |-> splat(0)],
     elements |-> [k \in Points |->
                     [normal_part |-> UsedPart(g), tangent_part |-> UsedPart(g)]]]
UsedBuilder(g) == [infos |-> [k \in Points |-> [dist |-> splat(g)]]]

\* SolverVel::zero().
SolverVelZero == [linear |-> 0, angular |-> 0]

(***************************************************************************)
(* TwoBodyConstraintBuilderSimd::generate.                                 *)
(***************************************************************************)
\* Mutant of dominance_ok: only the first lane is looked at.
dominance_ok_first_lane(mans) == mans[0].data.relative_dominance = 0

\* The assertions on relative_dominance.
dominance_ok(mans) == \A ii \in Lanes : mans[ii].data.relative_dominance = 0

\* One round of the loop over l: the constraint and the builder of the chunk
\* that starts at contact l.
generate_chunk(mans, constraint, builder, l, n0, sv1, sv2, mid) ==
    LET num_points == Min(n0 - l, MAX_MANIFOLD_POINTS)
        point(ii, k) == mans[ii].data.solver_contacts[l + k + 1]
    IN  [constraint |->
            [constraint EXCEPT
                !.solver_vel1 = sv1,
                !.solver_vel2 = sv2,
                !.manifold_id = mid,
                !.num_contacts = num_points,
                !.manifold_contact_id =
                    [k \in Points |->
                        IF k < num_points
                        THEN gather(LAMBDA ii : point(ii, k).contact_id)
                        ELSE @[k]],
                !.elements =
                    [k \in Points |->
                        IF k < num_points
                        THEN [normal_part |->
                                 [impulse |-> splat(0), total_impulse |-> splat(0)],
                              tangent_part |->
                                 [@[k].tangent_part EXCEPT !.impulse = splat(0)]]
                        ELSE @[k]]],
         builder |->
            [builder EXCEPT
                !.infos =
                    [k \in Points |->
                        IF k < num_points
                        THEN [dist |-> gather(LAMBDA ii : point(ii, k).dist)]
                        ELSE @[k]]]]

\* The loop over l, from l on. The slices of the lanes' contacts are taken
\* first, then the constraint and the builder are indexed.
RECURSIVE generate_from(_, _, _, _, _, _, _, _)
generate_from(mans, builders, constraints, l, n0, sv1, sv2, mid) ==
    IF l >= n0
    THEN [outcome |-> "Ok", out_builders |-> builders, out_constraints |-> constraints]
    ELSE IF \E ii \in Lanes : n0 > num_active_contacts(mans[ii])
    THEN [outcome |-> "PanicSlice",
          out_builders |-> builders, out_constraints |-> constraints]
    ELSE IF (l \div MAX_MANIFOLD_POINTS) \notin DOMAIN constraints
            \/ (l \div MAX_MANIFOLD_POINTS) \notin DOMAIN builders
    THEN [outcome |-> "PanicIndex",
          out_builders |-> builders, out_constraints |-> constraints]
    ELSE LET c == l \div MAX_MANIFOLD_POINTS
             w == generate_chunk(mans, constraints[c], builders[c],
                                 l, n0, sv1, sv2, mid)
         IN  generate_from(mans,
                           [builders EXCEPT ![c] = w.builder],
                           [constraints EXCEPT ![c] = w.constraint],
                           l + MAX_MANIFOLD_POINTS, n0, sv1, sv2, mid)

generate(mid, mans, builders, constraints) ==
    IF ~dominance_ok(mans)
    THEN [outcome |-> "PanicDominance",
          out_builders |-> builders, out_constraints |-> constraints]
    ELSE IF \E ii \in Lanes : mans[ii].data.rigid_body1 = NoBody
                              \/ mans[ii].data.rigid_body2 = NoBody
    THEN [outcome |-> "PanicUnwrap",
          out_builders |-> builders, out_constraints |-> constraints]
    ELSE LET sv1 == gather(LAMBDA ii :
                        bodies[mans[ii].data.rigid_body1].ids.active_set_offset)
             sv2 == gather(LAMBDA ii :
                        bodies[mans[ii].data.rigid_body2].ids.active_set_offset)
         IN  generate_from(mans, builders, constraints,
                           0, num_active_contacts(mans[0]), sv1, sv2, mid)

(***************************************************************************)
(* TwoBodyConstraintBuilderSimd::update: the loop over the first           *)
(* num_contacts infos and elements.                                        *)
(***************************************************************************)
update_part(part) ==
    [part EXCEPT !.total_impulse = simd_add(part.total_impulse, part.impulse),
                 !.impulse = splat(0)]

update(builder, constraint) ==
    [constraint EXCEPT
        !.elements =
            [k \in Points |->
                IF k < constraint.num_contacts
                THEN [normal_part |-> update_part(@[k].normal_part),
                      tangent_part |-> update_part(@[k].tangent_part)]
                ELSE @[k]]]

(***************************************************************************)
(* TwoBodyConstraintElement::solve_group is not among the sources. It      *)
(* gives the first n elements new impulses and moves the two bodies'       *)
(* velocities by what the impulses changed. Here the new impulses are set  *)
(* by a seed and by the velocity of the lane's first body relative to its  *)
(* second one, and differ from element to element, from lane to lane and   *)
(* from part to part; the normal impulses move the linear velocities and   *)
(* the tangent impulses the angular ones, body 1 one way and body 2 the    *)
(* other.                                                                  *)
(***************************************************************************)
\* One lane of new_impulse: va and vb are the velocities of the lane's bodies.
lane_impulse(seed, k, part, ii, va, vb) ==
    (seed + k + ii + part + va.linear - vb.linear) % (MaxImpulse + 1)

new_impulse(seed, k, part, v1, v2) ==
    [ii \in Lanes |-> lane_impulse(seed, k, part, ii, v1[ii], v2[ii])]

RECURSIVE sum_first(_, _)
sum_first(f, n) == IF n = 0 THEN 0 ELSE f[n - 1] + sum_first(f, n - 1)

solve_group(elements, n, v1, v2, solve_normal, solve_friction, seed) ==
    LET new_n(k) == IF solve_normal THEN new_impulse(seed, k, 0, v1, v2)
                    ELSE elements[k].normal_part.impulse
        new_t(k) == IF solve_friction THEN new_impulse(seed, k, 1, v1, v2)
                    ELSE elements[k].tangent_part.impulse
        dn(ii) == sum_first([k \in Points |->
                      new_n(k)[ii] - elements[k].normal_part.impulse[ii]], n)
        dt(ii) == sum_first([k \in Points |->
                      new_t(k)[ii] - elements[k].tangent_part.impulse[ii]], n)
    IN  [elements |->
            [k \in Points |->
                IF k < n
                THEN [normal_part |->
                         [elements[k].normal_part EXCEPT !.impulse = new_n(k)],
                      tangent_part |->
                         [elements[k].tangent_part EXCEPT !.impulse = new_t(k)]]
                ELSE elements[k]],
         solver_vel1 |->
            [ii \in Lanes |-> [linear |-> v1[ii].linear + dn(ii),
                               angular |-> v1[ii].angular + dt(ii)]],
         solver_vel2 |->
            [ii \in Lanes |-> [linear |-> v2[ii].linear - dn(ii),
                               angular |-> v2[ii].angular - dt(ii)]]]

(***************************************************************************)
(* TwoBodyConstraintSimd::solve: gather the velocities of the lanes'       *)
(* bodies, solve the group, write the velocities back lane by lane, the    *)
(* first bodies and then the second ones.                                  *)
(***************************************************************************)
RECURSIVE scatter(_, _, _, _)
scatter(vels, slots, v, ii) ==
    IF ii = SIMD_WIDTH THEN vels
    ELSE scatter([vels EXCEPT ![slots[ii]] = v[ii]], slots, v, ii + 1)

\* Mutant of solve: the velocities of the bodies are not gathered.
solve_without_gather(constraint, vels, solve_normal, solve_friction, seed) ==
    LET out == solve_group(constraint.elements, constraint.num_contacts,
                           splat(SolverVelZero), splat(SolverVelZero),
                           solve_normal, solve_friction, seed)
        vels1 == scatter(vels, constraint.solver_vel1, out.solver_vel1, 0)
        vels2 == scatter(vels1, constraint.solver_vel2, out.solver_vel2, 0)
    IN  [constraint |-> [constraint EXCEPT !.elements = out.elements],
         solver_vels |-> vels2]

solve(constraint, vels, solve_normal, solve_friction, seed) ==
    LET solver_vel1 == gather(LAMBDA ii : vels[constraint.solver_vel1[ii]])
        solver_vel2 == gather(LAMBDA ii : vels[constraint.solver_vel2[ii]])
        out == solve_group(constraint.elements, constraint.num_contacts,
                           solver_vel1, solver_vel2,
                           solve_normal, solve_friction, seed)
        vels1 == scatter(vels, constraint.solver_vel1, out.solver_vel1, 0)
        vels2 == scatter(vels1, constraint.solver_vel2, out.solver_vel2, 0)
    IN  [constraint |-> [constraint EXCEPT !.elements = out.elements],
         solver_vels |-> vels2]

(***************************************************************************)
(* TwoBodyConstraintSimd::writeback_impulses: for the first num_contacts   *)
(* elements and, within an element, lane after lane, the impulse of the    *)
(* normal part and of the tangent part go to the contact point             *)
(* manifold_contact_id[k][ii] of the manifold manifold_id[ii].             *)
(***************************************************************************)
\* manifolds_all holds the lanes' manifolds and one that is in no lane; a
\* manifold has one contact point more than it can have solver contacts.
NumManifolds == SIMD_WIDTH + 1
ManifoldIds == 0..(NumManifolds - 1)
NumPoints == MaxContacts + 1
PointIds == 0..(NumPoints - 1)

\* The impulses an earlier step left in a contact point: none that a solve
\* of this step produces, and no two the same.
StalePoint(m, p) ==
    [data |-> [impulse |-> MaxImpulse + 1 + 2 * (m * NumPoints + p),
               tangent_impulse |-> MaxImpulse + 2 + 2 * (m * NumPoints + p)]]

\* Mutant of write_point: the two impulses change places.
write_point_swapped(point, impulse, tangent_impulse) ==
    [point EXCEPT !.data.impulse = tangent_impulse,
                  !.data.tangent_impulse = impulse]

\* The two assignments to active_contact.data.
write_point(point, impulse, tangent_impulse) ==
    [point EXCEPT !.data.impulse = impulse,
                  !.data.tangent_impulse = tangent_impulse]

\* The loops over k and ii, from element k and lane ii on.
RECURSIVE writeback_from(_, _, _, _)
writeback_from(constraint, mall, k, ii) ==
    IF k >= constraint.num_contacts
    THEN [outcome |-> "Ok", manifolds_all |-> mall]
    ELSE IF ii = SIMD_WIDTH
    THEN writeback_from(constraint, mall, k + 1, 0)
    ELSE LET m == constraint.manifold_id[ii]
             contact_id == constraint.manifold_contact_id[k][ii]
         IN  IF m \notin DOMAIN mall \/ contact_id \notin DOMAIN mall[m].points
             THEN [outcome |-> "PanicIndex", manifolds_all |-> mall]
             ELSE writeback_from(
                      constraint,
                      [mall EXCEPT ![m].points[contact_id] =
                          write_point(@,
                                      constraint.elements[k].normal_part.impulse[ii],
                                      constraint.elements[k].tangent_part.impulse[ii])],
                      k, ii + 1)

writeback_impulses(constraint, mall) == writeback_from(constraint, mall, 0, 0)

(***************************************************************************)
(* The caller: generate once on slices an earlier step has used, then for  *)
(* each substep update every constraint generate has filled, then solve    *)
(* every one of them; after the last substep, write back the impulses of   *)
(* every one of them.                                                      *)
(***************************************************************************)
NoneProduced == [c \in Chunks |-> [k \in Points |->
                    [normal |-> splat(0), tangent |-> splat(0)]]]

SolverInit ==
    /\ CoarenaNew
    /\ \E doms \in [Lanes -> Dominances], counts \in [Lanes -> 0..MaxContacts],
          layout \in Layouts, g \in 0..MaxImpulse :
           /\ manifolds_all = [m \in ManifoldIds |->
                                 [points |-> [p \in PointIds |-> StalePoint(m, p)]]]
           /\ manifolds = [ii \in Lanes |->
                             Manifold(ii, doms[ii], counts[ii],
                                      Body1(layout, ii), Body2(layout, ii))]
           /\ out_builders = [c \in Chunks |-> UsedBuilder(g)]
           /\ out_constraints = [c \in Chunks |-> UsedConstraint(g)]
           /\ solver_vels = [b \in Handles |-> SolverVelZero]
           /\ outcome = "None"
           /\ driver = [phase |-> "new", substep |-> 0, next |-> 0]
           /\ produced = NoneProduced

\* The constraints generate fills for a first lane of n0 contacts.
Filled(n0) == (n0 + MAX_MANIFOLD_POINTS - 1) \div MAX_MANIFOLD_POINTS
FilledNow == Filled(num_active_contacts(manifolds[0]))

DoGenerate ==
    /\ driver.phase = "new"
    /\ LET out == generate(manifold_id_arg, manifolds, out_builders, out_constraints)
       IN  /\ outcome' = out.outcome
           /\ out_builders' = out.out_builders
           /\ out_constraints' = out.out_constraints
           /\ driver' = IF out.outcome # "Ok"
                        THEN [phase |-> "aborted", substep |-> 0, next |-> 0]
                        ELSE IF FilledNow = 0
                        THEN [phase |-> "end", substep |-> 0, next |-> 0]
                        ELSE [phase |-> "update", substep |-> 1, next |-> 0]
    /\ produced' = NoneProduced
    /\ UNCHANGED <<manifolds, manifolds_all, solver_vels>>

DoUpdate(c) ==
    /\ driver.phase = "update"
    /\ driver.next = c
    /\ out_constraints' =
          [out_constraints EXCEPT ![c] = update(out_builders[c], @)]
    /\ outcome' = "Ok"
    /\ driver' = IF c + 1 < FilledNow THEN [driver EXCEPT !.next = c + 1]
                 ELSE [driver EXCEPT !.phase = "solve", !.next = 0]
    /\ UNCHANGED <<manifolds, manifolds_all, out_builders, solver_vels, produced>>

DoSolve(c, seed) ==
    /\ driver.phase = "solve"
    /\ driver.next = c
    /\ LET out == solve(out_constraints[c], solver_vels, TRUE, TRUE, seed)
       IN  /\ out_constraints' = [out_constraints EXCEPT ![c] = out.constraint]
           /\ solver_vels' = out.solver_vels
           /\ produced' =
                 [produced EXCEPT ![c] =
                     [k \in Points |->
                         IF k < out.constraint.num_contacts
                         THEN [normal |->
                                  simd_add(@[k].normal,
                                           out.constraint.elements[k].normal_part.impulse),
                               tangent |->
                                  simd_add(@[k].tangent,
                                           out.constraint.elements[k].tangent_part.impulse)]
                         ELSE @[k]]]
    /\ outcome' = "Ok"
    /\ driver' = IF c + 1 < FilledNow THEN [driver EXCEPT !.next = c + 1]
                 ELSE IF driver.substep < MaxSubsteps
                 THEN [phase |-> "update", substep |-> driver.substep + 1, next |-> 0]
                 ELSE [phase |-> "writeback", substep |-> driver.substep, next |-> 0]
    /\ UNCHANGED <<manifolds, manifolds_all, out_builders>>

DoWritebackImpulses(c) ==
    /\ driver.phase = "writeback"
    /\ driver.next = c
    /\ LET out == writeback_impulses(out_constraints[c], manifolds_all)
       IN  /\ manifolds_all' = out.manifolds_all
           /\ outcome' = out.outcome
           /\ driver' = IF out.outcome # "Ok"
                        THEN [driver EXCEPT !.phase = "aborted"]
                        ELSE IF c + 1 < FilledNow THEN [driver EXCEPT !.next = c + 1]
                        ELSE [driver EXCEPT !.phase = "end", !.next = 0]
    /\ UNCHANGED <<manifolds, out_builders, out_constraints, solver_vels, produced>>

SolverNext ==
    \/ DoGenerate /\ UNCHANGED cvars
    \/ \E c \in Chunks : DoUpdate(c) /\ UNCHANGED cvars
    \/ \E c \in Chunks, seed \in 0..MaxImpulse : DoSolve(c, seed) /\ UNCHANGED cvars
    \/ \E c \in Chunks : DoWritebackImpulses(c) /\ UNCHANGED cvars

SolverSpec == SolverInit /\ [][SolverNext]_vars

(***************************************************************************)
(* Properties of the constraint builder and solver.                        *)
(***************************************************************************)
GenerateStep == driver.phase = "new" /\ driver'.phase # "new"
Generated == driver.phase \in {"update", "solve", "writeback", "end"}
ActiveElements ==
    {<<c, k>> \in Chunks \X Points :
        c < FilledNow /\ k < out_constraints[c].num_contacts}

\* C9: generate aborts on its relative_dominance assertion when the manifold of
\* any lane, the first or another, has a relative_dominance other than 0; it does
\* so before it unwraps a body handle or reads a body, and it leaves out_builders
\* and out_constraints as they were.
C9_GenerateRejectsDominance ==
    [][(GenerateStep /\ \E ii \in Lanes : manifolds[ii].data.relative_dominance # 0)
         => /\ outcome' = "PanicDominance"
            /\ driver'.phase = "aborted"
            /\ UNCHANGED <<out_builders, out_constraints, solver_vels>>]_vars

\* generate has aborted on the dominance of a lane other than the first, on
\* manifolds of which one has no first body and the first has contacts to write.
C9_Witness ==
    /\ driver.phase = "aborted"
    /\ outcome = "PanicDominance"
    /\ manifolds[0].data.relative_dominance = 0
    /\ manifolds[SIMD_WIDTH - 1].data.relative_dominance # 0
    /\ manifolds[SIMD_WIDTH - 1].data.rigid_body1 = NoBody
    /\ num_active_contacts(manifolds[0]) > 0

\* C10: over generate; (update; solve)^n, for every active element and for both
\* its normal part and its tangent part: generate leaves impulse and
\* total_impulse zero whatever the constraint held before, update adds impulse
\* to total_impulse and zeroes impulse, so at all times after generate
\* total_impulse + impulse is the sum of the impulses the solves of this step
\* have produced, and after an update total_impulse alone is.
C10_WarmStartContinuity ==
    Generated =>
        \A e \in ActiveElements : \A ii \in Lanes :
            LET elt == out_constraints[e[1]].elements[e[2]]
                sum == produced[e[1]][e[2]]
            IN  /\ elt.normal_part.total_impulse[ii] + elt.normal_part.impulse[ii]
                      = sum.normal[ii]
                /\ elt.tangent_part.total_impulse[ii] + elt.tangent_part.impulse[ii]
                      = sum.tangent[ii]

\* The part of C10 that the normal part alone satisfies.
C10_NormalPartContinuity ==
    Generated =>
        \A e \in ActiveElements : \A ii \in Lanes :
            LET elt == out_constraints[e[1]].elements[e[2]]
            IN  /\ elt.normal_part.total_impulse[ii] + elt.normal_part.impulse[ii]
                      = produced[e[1]][e[2]].normal[ii]
                /\ elt.tangent_part.impulse[ii] <= MaxImpulse

\* What generate leaves in the tangent part of an active element: the
\* total_impulse the constraint held before.
C10_TangentTotalKept ==
    [][GenerateStep /\ outcome' = "Ok" =>
          \A c \in Chunks, k \in Points :
              (c < FilledNow /\ k < out_constraints'[c].num_contacts) =>
                  /\ out_constraints'[c].elements[k].tangent_part.total_impulse
                        = out_constraints[c].elements[k].tangent_part.total_impulse
                  /\ out_constraints'[c].elements[k].tangent_part.impulse = splat(0)]_vars

\* The contact point that generate's arguments give for element k and lane ii
\* of the constraint c: its manifold and its index among the manifold's points.
RecordedTarget(c, k, ii) ==
    <<manifold_id_arg[ii],
      manifolds[ii].data.solver_contacts[c * MAX_MANIFOLD_POINTS + k + 1].contact_id>>

WritebackStep(c) ==
    driver.phase = "writeback" /\ driver.next = c /\ driver' # driver

\* C11: writeback_impulses of a constraint copies, for every element
\* k < num_contacts and every lane ii, lane ii of the element's normal impulse
\* and of its tangent impulse to impulse and tangent_impulse of the contact
\* point that generate recorded for (k, ii) in manifold_id and
\* manifold_contact_id; every other contact point of every manifold keeps its
\* values, the elements from num_contacts on are not written back, and the
\* constraints are unchanged.
C11_WritebackImpulses ==
    [][\A c \in Chunks : WritebackStep(c) =>
          LET con == out_constraints[c]
              Written == {<<k, ii>> \in Points \X Lanes : k < con.num_contacts}
          IN  /\ outcome' = "Ok"
              /\ \A w \in Written :
                    LET t == RecordedTarget(c, w[1], w[2])
                    IN  manifolds_all'[t[1]].points[t[2]].data =
                           [impulse |-> con.elements[w[1]].normal_part.impulse[w[2]],
                            tangent_impulse |->
                               con.elements[w[1]].tangent_part.impulse[w[2]]]
              /\ \A m \in ManifoldIds, p \in PointIds :
                    (\A w \in Written : RecordedTarget(c, w[1], w[2]) # <<m, p>>)
                        => manifolds_all'[m].points[p] = manifolds_all[m].points[p]
              /\ UNCHANGED <<out_constraints, out_builders, solver_vels>>]_vars

\* The impulses of two constraints have been written back, the second one of
\* fewer than MAX_MANIFOLD_POINTS contacts: a contact point holds a normal
\* impulse and a different tangent impulse that solve produced, while other
\* points of its manifold and all points of the manifold of no lane keep theirs.
C11_Witness ==
    /\ driver.phase = "end"
    /\ outcome = "Ok"
    /\ FilledNow = 2
    /\ out_constraints[1].num_contacts < MAX_MANIFOLD_POINTS
    /\ \E m \in ManifoldIds, p, q \in PointIds :
          /\ manifolds_all[m].points[p].data.impulse <= MaxImpulse
          /\ manifolds_all[m].points[p].data.tangent_impulse <= MaxImpulse
          /\ manifolds_all[m].points[p].data.impulse
                # manifolds_all[m].points[p].data.tangent_impulse
          /\ manifolds_all[m].points[q] = StalePoint(m, q)
    /\ \A p \in PointIds :
          manifolds_all[NumManifolds - 1].points[p] = StalePoint(NumManifolds - 1, p)

BodiesPresent ==
    \A ii \in Lanes : /\ manifolds[ii].data.rigid_body1 # NoBody
                      /\ manifolds[ii].data.rigid_body2 # NoBody

\* generate has been called on manifolds that pass its checks of the
\* dominances and of the body handles.
GenerateCalled == driver.phase # "new" /\ dominance_ok(manifolds) /\ BodiesPresent

\* Contact p of lane ii has its element: element p mod MAX_MANIFOLD_POINTS of
\* constraint p div MAX_MANIFOLD_POINTS is in use, and the constraint holds the
\* contact's contact_id and the lane's manifold id.
HasElement(ii, p) ==
    LET con == out_constraints[p \div MAX_MANIFOLD_POINTS]
        k == p % MAX_MANIFOLD_POINTS
    IN  /\ k < con.num_contacts
        /\ con.manifold_contact_id[k][ii] = manifolds[ii].data.solver_contacts[p + 1].contact_id
        /\ con.manifold_id[ii] = manifold_id_arg[ii]

\* Contact p has no element: its place is beyond the elements in use of a
\* constraint generate has filled, or in a constraint generate has left as
\* it was.
Unwritten(p) ==
    LET c == p \div MAX_MANIFOLD_POINTS
    IN  IF c < FilledNow
        THEN p % MAX_MANIFOLD_POINTS >= out_constraints[c].num_contacts
        ELSE \E g \in 0..MaxImpulse : out_constraints[c] = UsedConstraint(g)

\* C12: whatever the numbers of active contacts of the lanes' manifolds,
\* generate does not abort, and every active contact p of every lane ii has its
\* element, in manifold order: element p mod MAX_MANIFOLD_POINTS of
\* out_constraints[p div MAX_MANIFOLD_POINTS], with the contact's contact_id in
\* manifold_contact_id and the lane's manifold id in manifold_id; num_contacts
\* of a constraint is the number of contacts of its chunk.
C12_ContactToRowMapping ==
    GenerateCalled =>
        /\ driver.phase # "aborted"
        /\ \A ii \in Lanes :
              /\ \A p \in 0..(num_active_contacts(manifolds[ii]) - 1) : HasElement(ii, p)
              /\ \A c \in Chunks :
                    c < Filled(num_active_contacts(manifolds[ii])) =>
                        out_constraints[c].num_contacts =
                            Min(num_active_contacts(manifolds[ii]) - c * MAX_MANIFOLD_POINTS,
                                MAX_MANIFOLD_POINTS)

\* What generate does instead: the first lane's number of contacts counts for
\* all lanes. A lane of fewer contacts makes generate abort on the slice of
\* its contacts; otherwise the contacts up to the first lane's number have
\* their elements and those beyond it have none.
C12_FirstLaneCounts ==
    GenerateCalled =>
        LET n0 == num_active_contacts(manifolds[0])
        IN  IF \E ii \in Lanes : num_active_contacts(manifolds[ii]) < n0
            THEN driver.phase = "aborted" /\ outcome = "PanicSlice"
            ELSE /\ driver.phase # "aborted"
                 /\ \A ii \in Lanes :
                       \A p \in 0..(num_active_contacts(manifolds[ii]) - 1) :
                           IF p < n0 THEN HasElement(ii, p) ELSE Unwritten(p)
                 /\ \A c \in Chunks :
                       c < Filled(n0) =>
                           out_constraints[c].num_contacts =
                               Min(n0 - c * MAX_MANIFOLD_POINTS, MAX_MANIFOLD_POINTS)

\* One lane of a constraint solved by itself: the velocities of the lane's two
\* bodies are read from the array, the lane's impulses and velocities are
\* computed, and the two velocities are written to the array.
solve_one_lane(constraint, vels, ii, seed) ==
    LET a == constraint.solver_vel1[ii]
        b == constraint.solver_vel2[ii]
        n == constraint.num_contacts
        new(k, part) == lane_impulse(seed, k, part, ii, vels[a], vels[b])
        dn == sum_first([k \in Points |->
                  new(k, 0) - constraint.elements[k].normal_part.impulse[ii]], n)
        dt == sum_first([k \in Points |->
                  new(k, 1) - constraint.elements[k].tangent_part.impulse[ii]], n)
        va == [linear |-> vels[a].linear + dn, angular |-> vels[a].angular + dt]
        vb == [linear |-> vels[b].linear - dn, angular |-> vels[b].angular - dt]
    IN  [constraint |->
            [constraint EXCEPT
                !.elements =
                    [k \in Points |->
                        IF k < n
                        THEN [@[k] EXCEPT !.normal_part.impulse[ii] = new(k, 0),
                                          !.tangent_part.impulse[ii] = new(k, 1)]
                        ELSE @[k]]],
         solver_vels |-> [[vels EXCEPT ![a] = va] EXCEPT ![b] = vb]]

\* The lanes solved one at a time, in the order given, from the i-th on.
RECURSIVE solve_lane_by_lane(_, _, _, _, _)
solve_lane_by_lane(constraint, vels, order, i, seed) ==
    IF i > Len(order) THEN [constraint |-> constraint, solver_vels |-> vels]
    ELSE LET out == solve_one_lane(constraint, vels, order[i], seed)
         IN  solve_lane_by_lane(out.constraint, out.solver_vels, order, i + 1, seed)

\* The orders of the lanes.
LaneOrders ==
    {order \in [1..SIMD_WIDTH -> Lanes] :
        \A i, j \in 1..SIMD_WIDTH : order[i] = order[j] => i = j}

\* The slots of the solver velocities that a constraint refers to.
SlotsOf(constraint) ==
    {constraint.solver_vel1[ii] : ii \in Lanes}
        \cup {constraint.solver_vel2[ii] : ii \in Lanes}
SlotsDistinct(constraint) == Cardinality(SlotsOf(constraint)) = 2 * SIMD_WIDTH

SolveStep(c) == driver.phase = "solve" /\ driver.next = c /\ driver' # driver

\* C13: solve of a constraint changes no slot of solver_vels other than
\* solver_vel1[ii] and solver_vel2[ii] of its lanes; when these 2 * SIMD_WIDTH
\* slots are pairwise distinct, the velocities and the impulses it leaves are
\* those of solving the lanes one at a time, in any order, each lane from the
\* velocities of its own two bodies as the array holds them when solve is
\* called, the writes of the constraints solved before included.
C13_SolveGatherScatter ==
    [][\A c \in Chunks : SolveStep(c) =>
          LET con == out_constraints[c]
          IN  /\ \A b \in Handles \ SlotsOf(con) : solver_vels'[b] = solver_vels[b]
              /\ \A d \in Chunks \ {c} : out_constraints'[d] = out_constraints[d]
              /\ SlotsDistinct(con) =>
                    \E seed \in 0..MaxImpulse : \A order \in LaneOrders :
                        LET ref == solve_lane_by_lane(con, solver_vels, order, 1, seed)
                        IN  /\ solver_vels' = ref.solver_vels
                            /\ out_constraints'[c] = ref.constraint]_vars

\* Two constraints on distinct slots have been solved one after the other, and
\* the second solve started from the velocities the first one wrote: each has
\* produced a normal impulse in the first lane, and the velocity of the lane's
\* first body is the sum of what both have produced, that of a body of no lane
\* still zero.
C13_Witness ==
    /\ driver.phase = "update"
    /\ driver.substep = 2
    /\ FilledNow = 2
    /\ SlotsDistinct(out_constraints[0])
    /\ produced[0][0].normal[0] > 0
    /\ produced[1][0].normal[0] > 0
    /\ solver_vels[out_constraints[0].solver_vel1[0]].linear
          = produced[0][0].normal[0] + produced[0][1].normal[0]
               + produced[1][0].normal[0]
    /\ solver_vels[out_constraints[1].solver_vel2[0]].linear
          = 0 - solver_vels[out_constraints[0].solver_vel1[0]].linear

\* The equality of C13 without its condition on the slots. It does not hold:
\* when two lanes share a slot, solve differs from the lanes solved one at a
\* time.
C13_SharedSlotsToo ==
    [][\A c \in Chunks : SolveStep(c) =>
          \E seed \in 0..MaxImpulse : \A order \in LaneOrders :
              solver_vels' =
                  solve_lane_by_lane(out_constraints[c], solver_vels, order, 1, seed).solver_vels]_vars

====
